---- MODULE Spec2Model ----
(***************************************************************************)
(* The apportionment engine of prop_allocate.py: the two rounding methods  *)
(* largest_remainder and highest_average, the divisor catalog, and the     *)
(* capacity-constrained driver allocate.                                   *)
(*                                                                         *)
(* A mapping keyed by entity (a Python dict or Counter) is a sequence      *)
(* aligned with Order: position i holds the value of entity Order[i], and  *)
(* the index order is the iteration (insertion) order of the dict.         *)
(* Sizes are integers, as in the tests of prop_allocate.py lines 216-234.  *)
(***************************************************************************)
EXTENDS Integers, Sequences, FiniteSets

VARIABLES
    op,       \* the function that was called: "none" before any call
    pc,       \* "idle", "loop" (inside allocate's while), "returned", "raised"
    err,      \* the exception raised, "none" otherwise
    method,   \* allocate's method argument: "largest_remainder" / "highest_average"
    divname,  \* the divisor name (highest_average's divisor, or divisor's name)
    size,     \* the size mapping (allocate mutates the caller's dict)
    size0,    \* the size mapping at call entry
    units,    \* allocate's units, after line 193/195 (NoMap before the call)
    units0,   \* the units argument as passed: [given, map], given = FALSE for None
    n0,       \* the n argument as passed
    initial,  \* allocate's initial argument
    n,        \* allocate's local n: what remains to distribute
    res,      \* the result Counter
    rounds,   \* completed iterations of allocate's while loop
    clamped,  \* entities clamped (size zeroed) so far
    fresh     \* did the last iteration clamp an entity not clamped before

vars == <<op, pc, err, method, divname, size, size0, units, units0, n0,
          initial, n, res, rounds, clamped, fresh>>

----------------------------------------------------------------------------
(* Bounds of the model *)

MaxSize == 2        \* allocate: sizes range over -1..MaxSize
MaxUnits == 2       \* allocate: units range over -1..MaxUnits
MaxN == 4           \* allocate: n ranges over -1..MaxN
MaxInitial == 1     \* allocate: initial ranges over -1..MaxInitial
MaxRounds == 5      \* allocate: iterations of the while loop that are explored
MaxLRSize == 4      \* largest_remainder: sizes range over -1..MaxLRSize
MaxLRN == 11        \* largest_remainder: n ranges over -1..MaxLRN
MaxHASize == 3      \* highest_average: sizes range over -1..MaxHASize
MaxHAN == 4         \* highest_average: n ranges over -1..MaxHAN
MaxArg == 15        \* divisor(name)(a): a ranges over 0..MaxArg

\* The entities, in the iteration order of the size dict.
Order == <<"a", "b", "c">>
K == Len(Order)
Keys == 1..K

None == "None"

----------------------------------------------------------------------------
(* Helpers on mappings *)

RECURSIVE SumTo(_, _)
SumTo(f, i) == IF i = 0 THEN 0 ELSE f[i] + SumTo(f, i - 1)

\* fsum(size.values()) / sum of a Counter's values
Sum(f) == SumTo(f, Len(f))

\* any(x < 0 for x in size.values())
AnyNegative(f) == \E k \in 1..Len(f) : f[k] < 0

\* Counter.update(other): counts are added
CounterUpdate(c, other) == [k \in 1..Len(c) |-> c[k] + other[k]]

----------------------------------------------------------------------------
(* IEEE-754 binary64 arithmetic of largest_remainder, lines 47-49.         *)
(*                                                                         *)
(* np = n * x / sumx is the correctly rounded quotient of the integers     *)
(* q = n * x and S = sumx. floor(np) is the exact floor of q / S (a        *)
(* non-integer q / S is at least 1 / S away from an integer). The          *)
(* subtraction npf - np is exact, so remainder = -(np - npf): minus the    *)
(* fraction (q % S) / S rounded to the grid 2^(-p) of np's binade.         *)
(* Two remainders with different exact fractions compare as the exact      *)
(* fractions do; two with the same exact fraction r / S compare by how     *)
(* r / S rounds on their two grids, decided from 2^p * r mod S.            *)

Mantissa == 52   \* fraction bits of a binary64 float

RECURSIVE ILog2(_)
\* floor(log2(i)) for an integer i >= 1
ILog2(i) == IF i < 2 THEN 0 ELSE 1 + ILog2(i \div 2)

RECURSIVE Shift(_, _)
\* least t with 2^t * r >= S, for 1 <= r
Shift(r, S) == IF r >= S THEN 0 ELSE 1 + Shift(2 * r, S)

RECURSIVE Pow2(_)
Pow2(d) == IF d = 0 THEN 1 ELSE 2 * Pow2(d - 1)

\* p such that the float nearest q / S lies on the grid 2^(-p)  (q >= 1)
GridBits(q, S) ==
    IF q \div S >= 1 THEN Mantissa - ILog2(q \div S)
                     ELSE Mantissa + Shift(q, S)

RECURSIVE PowRem(_, _, _)
\* (2^p * r) mod S
PowRem(r, p, S) == IF p = 0 THEN r % S ELSE (2 * PowRem(r, p - 1, S)) % S

\* 1 when r / S rounds up on the grid 2^(-p), 0 when it rounds down
RoundsUp(r, p, S) == IF 2 * PowRem(r, p, S) > S THEN 1 ELSE 0

\* For the same exact fraction r / S on a coarse grid pc and a fine grid
\* pf (pc < pf): the rounded values scaled by 2^pf, less their common part.
CoarseVal(r, pcoarse, pfine, S) == RoundsUp(r, pcoarse, S) * Pow2(pfine - pcoarse)
FineVal(r, pcoarse, pfine, S) ==
    ((Pow2(pfine - pcoarse) * PowRem(r, pcoarse, S)) \div S) + RoundsUp(r, pfine, S)

\* float(np1 - npf1) < float(np2 - npf2), for np_i = q_i / S
FracLess(q1, q2, S) ==
    LET r1 == q1 % S
        r2 == q2 % S
        p1 == GridBits(q1, S)
        p2 == GridBits(q2, S)
    IN  IF r1 # r2 THEN r1 < r2
        ELSE IF r1 = 0 \/ p1 = p2 THEN FALSE
        ELSE IF p1 < p2 THEN CoarseVal(r1, p1, p2, S) < FineVal(r1, p1, p2, S)
        ELSE FineVal(r1, p2, p1, S) < CoarseVal(r1, p2, p1, S)

----------------------------------------------------------------------------
(* largest_remainder *)

\* npf = floor(n * x / sumx)
Npf(x, nn, sumx) == (nn * x) \div sumx

\* the remainder taken as np - npf: the sort order is reversed
RemainderGreater(sz, nn, j, k) ==
    FracLess(nn * sz[j], nn * sz[k], Sum(sz))

\* remainder[j] < remainder[k], with remainder = npf - np
RemainderLess(sz, nn, j, k) ==
    FracLess(nn * sz[k], nn * sz[j], Sum(sz))

\* j comes before k in sorted(remainder, key=remainder.get): the sort is
\* stable, so equal keys keep the dict's iteration order.
SortsBefore(sz, nn, j, k) ==
    \/ RemainderLess(sz, nn, j, k)
    \/ (~RemainderLess(sz, nn, k, j) /\ j < k)

\* position of k in sorted(remainder, key=remainder.get), from 0
SortedIndex(sz, nn, k) ==
    Cardinality({j \in 1..Len(sz) : j # k /\ SortsBefore(sz, nn, j, k)})

\* total: the sum of the floors
Total(sz, nn) ==
    Sum([k \in 1..Len(sz) |-> Npf(sz[k], nn, Sum(sz))])

\* add_one = sorted(remainder, key=remainder.get)[:n - total]
AddOne(sz, nn) ==
    {k \in 1..Len(sz) : SortedIndex(sz, nn, k) < nn - Total(sz, nn)}

\* the exception largest_remainder raises, "none" when it returns
LargestRemainderError(sz, nn) ==
    IF nn < 0 THEN "n must be positive"
    ELSE IF AnyNegative(sz) THEN "size cannot have negative values"
    ELSE IF Sum(sz) = 0 THEN "size cannot have all zeros"
    ELSE "none"

\* the Counter largest_remainder returns (when it raises nothing)
LargestRemainder(sz, nn) ==
    [k \in 1..Len(sz) |->
        Npf(sz[k], nn, Sum(sz)) + (IF k \in AddOne(sz, nn) THEN 1 ELSE 0)]

----------------------------------------------------------------------------
(* divisor: the catalog of divisor functions.                              *)
(* A divisor value is kept exact: num / den, or sqrt(num / den) when root. *)

DivisorNames ==
    {"Adams", "Dean", "Huntington-Hill", "Webster", "D'Hondt", "Imperiali", "Danish"}

\* divisor(name)(x), for a name of the catalog
Divisor(name, x) ==
    CASE name = "Adams"           -> [num |-> x, den |-> 1, root |-> FALSE]
      [] name = "Dean"            -> [num |-> 2 * x * (x + 1), den |-> 2 * x + 1, root |-> FALSE]
      [] name = "Huntington-Hill" -> [num |-> x * (x + 1), den |-> 1, root |-> TRUE]
      [] name = "Webster"         -> [num |-> 2 * x + 1, den |-> 2, root |-> FALSE]
      [] name = "D'Hondt"         -> [num |-> x + 1, den |-> 1, root |-> FALSE]
      [] name = "Imperiali"       -> [num |-> x + 2, den |-> 1, root |-> FALSE]
      [] name = "Danish"          -> [num |-> 3 * x + 1, den |-> 3, root |-> FALSE]

\* divisor(name)(x) > 0
DivisorPositive(name, x) ==
    Divisor(name, x).num > 0 /\ Divisor(name, x).den > 0

\* divisor(name)(x) == 0: v / divisor(x) raises ZeroDivisionError
DivisorIsZero(name, x) == Divisor(name, x).num = 0

----------------------------------------------------------------------------
(* highest_average *)

\* td[j] > td[k], with td[k] = size[k] / divisor(res[k]); sizes are
\* non-negative and the divisors positive here. The quotients are compared
\* exactly: for integer sizes and counts this small, the float quotients
\* are ordered as the exact ones are.
AverageGreater(sz, r, dn, j, k) ==
    LET dj == Divisor(dn, r[j])
        dk == Divisor(dn, r[k])
    IN  IF dj.root
        THEN sz[j] * sz[j] * dk.num * dj.den > sz[k] * sz[k] * dj.num * dk.den
        ELSE sz[j] * dj.den * dk.num > sz[k] * dk.den * dj.num

\* max(td, key=td.get): the first key, in iteration order, of maximal td
MaxKey(sz, r, dn) ==
    CHOOSE k \in 1..Len(sz) :
        /\ \A j \in 1..Len(sz) : ~AverageGreater(sz, r, dn, j, k)
        /\ \A j \in 1..(k - 1) : AverageGreater(sz, r, dn, k, j)

\* one iteration of the while loop: res[max(td, key=td.get)] += 1
HAStep(sz, r, dn) == [r EXCEPT ![MaxKey(sz, r, dn)] = @ + 1]

RECURSIVE HALoopFromOne(_, _, _, _)
\* the loop with its test off by one: while n > 1
HALoopFromOne(sz, r, nn, dn) ==
    IF nn > 1 THEN HALoopFromOne(sz, HAStep(sz, r, dn), nn - 1, dn) ELSE r

RECURSIVE HALoop(_, _, _, _)
\* while n > 0: ...; n -= 1
HALoop(sz, r, nn, dn) ==
    IF nn > 0 THEN HALoop(sz, HAStep(sz, r, dn), nn - 1, dn) ELSE r

\* the exception highest_average raises, "none" when it returns. Every
\* count is 0 in the first iteration, and the divisors of the catalog are
\* positive from 1 on, so only divisor(0) can be zero.
HighestAverageError(sz, nn, dn) ==
    IF nn < 0 THEN "n must be positive"
    ELSE IF AnyNegative(sz) THEN "sizes cannot be negative"
    ELSE IF nn > 0 /\ Len(sz) > 0 /\ DivisorIsZero(dn, 0) THEN "ZeroDivisionError"
    ELSE "none"

\* the Counter highest_average returns (when it raises nothing)
HighestAverage(sz, nn, dn) ==
    HALoop(sz, [k \in 1..Len(sz) |-> 0], nn, dn)

----------------------------------------------------------------------------
(* allocate *)

\* method(size, n): the default divisor of highest_average is D'Hondt
MethodError(m, sz, nn) ==
    IF m = "largest_remainder" THEN LargestRemainderError(sz, nn)
    ELSE HighestAverageError(sz, nn, "D'Hondt")

Method(m, sz, nn) ==
    IF m = "largest_remainder" THEN LargestRemainder(sz, nn)
    ELSE HighestAverage(sz, nn, "D'Hondt")

\* the checks with line 187 taken as initial * len(size) >= n
AllocateErrorAtLimit(sz, nn, un, init) ==
    IF nn < 0 THEN "n must be positive"
    ELSE IF init < 0 THEN "intial must be positive"
    ELSE IF init * Len(sz) >= nn THEN "initial allocation cannot be larger"
    ELSE IF un.given /\ DOMAIN un.map # DOMAIN sz THEN "size and units must have the same keys"
    ELSE IF un.given /\ AnyNegative(un.map) THEN "units cannot have negative values"
    ELSE "none"

\* the exception of allocate's own checks, lines 179-203
AllocateError(sz, nn, un, init) ==
    IF nn < 0 THEN "n must be positive"
    ELSE IF init < 0 THEN "intial must be positive"
    ELSE IF init * Len(sz) > nn THEN "initial allocation cannot be larger"
    ELSE IF un.given /\ DOMAIN un.map # DOMAIN sz THEN "size and units must have the same keys"
    ELSE IF un.given /\ AnyNegative(un.map) THEN "units cannot have negative values"
    ELSE "none"

\* units after lines 192-195
UnitsCounter(sz, nn, un) ==
    IF un.given THEN un.map ELSE [k \in 1..Len(sz) |-> nn]

\* the entities with v > units[k] in the for loop of lines 208-212
Over(r, un) == {k \in 1..Len(r) : r[k] > un[k]}

\* res after the for loop: res[k] = units[k] for the entities over capacity
Clamp(r, un) == [k \in 1..Len(r) |-> IF k \in Over(r, un) THEN un[k] ELSE r[k]]

\* the excess with its sign flipped: n += units[k] - v
ExcessNegated(r, un) ==
    Sum([k \in 1..Len(r) |-> IF k \in Over(r, un) THEN un[k] - r[k] ELSE 0])

\* n after the for loop: n = 0, then n += v - units[k]
Excess(r, un) == Sum([k \in 1..Len(r) |-> IF k \in Over(r, un) THEN r[k] - un[k] ELSE 0])

\* the test of line 209 taken as v >= units[k] when zeroing the sizes
ZeroSizesAtCapacity(sz, r, un) ==
    [k \in 1..Len(sz) |-> IF r[k] >= un[k] THEN 0 ELSE sz[k]]

\* size after the for loop: size[k] = 0 for the entities over capacity
ZeroSizes(sz, r, un) == [k \in 1..Len(sz) |-> IF k \in Over(r, un) THEN 0 ELSE sz[k]]

----------------------------------------------------------------------------
NoMap == <<>>

\* units=None, the default
NoUnits == [given |-> FALSE, map |-> NoMap]

Methods == {"largest_remainder", "highest_average"}

\* units arguments: None, a mapping with the keys of size, and mappings
\* with a key missing or with one key more
UnitsArgs ==
    {NoUnits} \cup
    {[given |-> TRUE, map |-> u] :
        u \in [Keys -> -1..MaxUnits] \cup [1..(K - 1) -> {0, MaxUnits}]
                                     \cup [1..(K + 1) -> {MaxUnits}]}

Init ==
    /\ op = "none"
    /\ pc = "idle"
    /\ err = "none"
    /\ method = None
    /\ divname = None
    /\ size = NoMap
    /\ size0 = NoMap
    /\ units = NoMap
    /\ units0 = NoUnits
    /\ n0 = 0
    /\ initial = 0
    /\ n = 0
    /\ res = NoMap
    /\ rounds = 0
    /\ clamped = {}
    /\ fresh = FALSE

\* A call of allocate(size, n, units=, initial=, method=), up to the first
\* test of the while loop (lines 179-205)
CallAllocate ==
    /\ pc = "idle"
    /\ \E sz \in [Keys -> -1..MaxSize], nn \in -1..MaxN, un \in UnitsArgs,
          init \in -1..MaxInitial, m \in Methods :
        LET e == AllocateError(sz, nn, un, init) IN
        /\ op' = "allocate"
        /\ method' = m
        /\ size' = sz
        /\ size0' = sz
        /\ units0' = un
        /\ n0' = nn
        /\ initial' = init
        /\ err' = e
        /\ IF e = "none"
           THEN /\ res' = [k \in Keys |-> init]
                /\ units' = UnitsCounter(sz, nn, un)
                /\ n' = nn - init * Len(sz)
                /\ pc' = IF nn - init * Len(sz) > 0 THEN "loop" ELSE "returned"
           ELSE /\ res' = NoMap
                /\ units' = NoMap
                /\ n' = nn
                /\ pc' = "raised"
    /\ UNCHANGED <<divname, rounds, clamped, fresh>>

\* One iteration of allocate's while loop (lines 205-212), and the return
\* of line 213 when the loop ends
Round ==
    /\ pc = "loop"
    /\ op = "allocate"
    /\ rounds < MaxRounds
    /\ LET e == MethodError(method, size, n) IN
       IF e # "none"
       THEN /\ pc' = "raised"
            /\ err' = e
            /\ UNCHANGED <<size, n, res, rounds, clamped, fresh>>
       ELSE LET r == CounterUpdate(res, Method(method, size, n)) IN
            /\ res' = Clamp(r, units)
            /\ n' = Excess(r, units)
            /\ size' = ZeroSizes(size, r, units)
            /\ rounds' = rounds + 1
            /\ clamped' = clamped \cup Over(r, units)
            /\ fresh' = (Over(r, units) \ clamped # {})
            /\ pc' = IF Excess(r, units) > 0 THEN "loop" ELSE "returned"
            /\ err' = "none"
    /\ UNCHANGED <<op, method, divname, size0, units, units0, n0, initial>>

\* A call of largest_remainder(size, n)
CallLargestRemainder ==
    /\ pc = "idle"
    /\ \E sz \in [Keys -> -1..MaxLRSize], nn \in -1..MaxLRN :
        LET e == LargestRemainderError(sz, nn) IN
        /\ op' = "largest_remainder"
        /\ size' = sz
        /\ size0' = sz
        /\ n0' = nn
        /\ n' = nn
        /\ err' = e
        /\ pc' = IF e = "none" THEN "returned" ELSE "raised"
        /\ res' = IF e = "none" THEN LargestRemainder(sz, nn) ELSE NoMap
    /\ UNCHANGED <<method, divname, units, units0, initial, rounds, clamped, fresh>>

\* A call of highest_average(size, n, divisor=divisor(name))
CallHighestAverage ==
    /\ pc = "idle"
    /\ \E sz \in [Keys -> -1..MaxHASize], nn \in -1..MaxHAN, dn \in DivisorNames :
        LET e == HighestAverageError(sz, nn, dn) IN
        /\ op' = "highest_average"
        /\ divname' = dn
        /\ size' = sz
        /\ size0' = sz
        /\ n0' = nn
        /\ n' = nn
        /\ err' = e
        /\ pc' = IF e = "none" THEN "returned" ELSE "raised"
        /\ res' = IF e = "none" THEN HighestAverage(sz, nn, dn) ELSE NoMap
    /\ UNCHANGED <<method, units, units0, initial, rounds, clamped, fresh>>

\* A call of divisor(name)(a): n0 holds the argument a, res the value
CallDivisor ==
    /\ pc = "idle"
    /\ \E dn \in DivisorNames, a \in 0..MaxArg :
        /\ op' = "divisor"
        /\ divname' = dn
        /\ n0' = a
        /\ res' = Divisor(dn, a)
        /\ pc' = "returned"
    /\ UNCHANGED <<err, method, size, size0, units, units0, initial, n, rounds,
                   clamped, fresh>>

Next == CallAllocate \/ Round

Spec == Init /\ [][Next]_vars

SpecLR == Init /\ [][CallLargestRemainder]_vars

NextHA == CallHighestAverage \/ CallDivisor

SpecHA == Init /\ [][NextHA]_vars

----------------------------------------------------------------------------
(* Properties of allocate, checked under Spec *)

\* the call passed allocate's own checks (lines 179-203)
Accepted ==
    /\ op = "allocate"
    /\ AllocateError(size0, n0, units0, initial) = "none"

\* sizes non-negative and not all zero, at call entry
SizesValid == ~AnyNegative(size0) /\ Sum(size0) > 0

\* sum(units) >= n, with the default capacities when units is None
CapacitySuffices == Sum(UnitsCounter(size0, n0, units0)) >= n0

\* C1: for non-negative sizes that are not all zero and sum(units) >= n,
\* allocate returns (it does not raise) and the returned allocation sums
\* to n.
C1_SumIsN ==
    (Accepted /\ SizesValid /\ CapacitySuffices) =>
        /\ pc # "raised"
        /\ (pc = "returned" => Sum(res) = n0)

\* C2: every accepted call that returns has 0 <= allocation[k] <= units[k]
\* and allocation[k] >= initial for every entity k.
C2_WithinCapacityAboveInitial ==
    (Accepted /\ pc = "returned") =>
        \A k \in Keys : 0 <= res[k] /\ res[k] <= units[k] /\ res[k] >= initial

\* C3: for accepted calls with sufficient capacity the loop runs at most
\* |size| iterations, every iteration that does not end the loop clamping
\* an entity that was not clamped before.
C3_LoopBounded ==
    (Accepted /\ CapacitySuffices) =>
        /\ rounds <= K
        /\ (pc = "loop" /\ rounds > 0 => fresh)

\* C4: whenever allocate raises, the caller's size mapping is what it was
\* at call entry.
C4_RaiseLeavesSize ==
    (op = "allocate" /\ pc = "raised") => size = size0

\* C5: allocate signals an error (it does not return an allocation) for
\* every size mapping with a negative size or with all sizes zero.
C5_BadSizesRejected ==
    (Accepted /\ (AnyNegative(size0) \/ Sum(size0) = 0)) => pc # "returned"

----------------------------------------------------------------------------
(* Properties of the rounding methods and the divisors *)

\* C7: divisor(name)(a) > 0 for each of the seven catalog names and every
\* integer a >= 0, a = 0 included.
C7_DivisorPositive ==
    (op = "divisor" /\ pc = "returned") => (res.num > 0 /\ res.den > 0)

Abs(x) == IF x < 0 THEN -x ELSE x

\* C8: each value of largest_remainder(size, n) differs from the exact
\* share n * size[k] / sum(size) by less than 1:
\* |allocation[k] * sum(size) - n * size[k]| < sum(size).
C8_WithinOneOfShare ==
    (op = "largest_remainder" /\ pc = "returned") =>
        \A k \in Keys : Abs(res[k] * Sum(size) - n0 * size[k]) < Sum(size)

\* C8 witness: a returned allocation in which an entity with a fractional
\* share got the extra unit and another was left at its floor.
C8_Witness ==
    /\ op = "largest_remainder" /\ pc = "returned"
    /\ \E j, k \in Keys :
        /\ (n0 * size[j]) % Sum(size) # 0
        /\ res[j] = Npf(size[j], n0, Sum(size)) + 1
        /\ (n0 * size[k]) % Sum(size) # 0
        /\ res[k] = Npf(size[k], n0, Sum(size))

\* the divisor is positive on every count highest_average(size, m) reads
PositiveUpTo(dn, m) == \A a \in 0..m : DivisorPositive(dn, a)

\* C9: for non-negative sizes and a positive divisor function,
\* highest_average(size, n + 1) is highest_average(size, n) plus one unit
\* for a single entity (so no entity's allocation decreases).
C9_Monotone ==
    (op = "highest_average" /\ pc = "returned" /\ PositiveUpTo(divname, n0 + 1)) =>
        \E k \in Keys :
            HighestAverage(size, n0 + 1, divname) = [res EXCEPT ![k] = @ + 1]

\* C9 witness: a returned highest_average allocation, under a positive
\* divisor, of two units or more spread over several entities.
C9_Witness ==
    /\ op = "highest_average" /\ pc = "returned"
    /\ PositiveUpTo(divname, n0 + 1)
    /\ n0 >= 2
    /\ Cardinality({k \in Keys : res[k] > 0}) >= 2

\* The allocation C10 describes: the floors, and one extra unit for each
\* of the n - total entities of largest fractional part (n * size[k]) mod
\* sum(size), entities of equal fractional part in iteration order.
ExactBefore(sz, nn, j, k) ==
    \/ (nn * sz[j]) % Sum(sz) > (nn * sz[k]) % Sum(sz)
    \/ ((nn * sz[j]) % Sum(sz) = (nn * sz[k]) % Sum(sz) /\ j < k)

ExactExtras(sz, nn) ==
    {k \in 1..Len(sz) :
        Cardinality({j \in 1..Len(sz) : j # k /\ ExactBefore(sz, nn, j, k)})
            < nn - Total(sz, nn)}

ExactLargestRemainder(sz, nn) ==
    [k \in 1..Len(sz) |->
        ((nn * sz[k]) \div Sum(sz)) + (IF k \in ExactExtras(sz, nn) THEN 1 ELSE 0)]

\* C10: largest_remainder(size, n) is the floors plus one extra unit for
\* the entities of largest fractional part, ties going to the entities
\* earlier in iteration order; it sums to n; sizes in ratio 6:6:2 give
\* (4, 4, 2) for n = 10 and (5, 5, 1) for n = 11.
C10_FloorsPlusLargestFractions ==
    (op = "largest_remainder" /\ pc = "returned") =>
        /\ res = ExactLargestRemainder(size, n0)
        /\ Sum(res) = n0
        /\ (size = <<3, 3, 1>> /\ n0 = 10 => res = <<4, 4, 2>>)
        /\ (size = <<3, 3, 1>> /\ n0 = 11 => res = <<5, 5, 1>>)

----------------------------------------------------------------------------
(* Further properties of allocate, checked under Spec *)

\* a round of the loop starts and its call of the method raises nothing
RoundStarts ==
    /\ op = "allocate" /\ pc = "loop"
    /\ MethodError(method, size, n) = "none"

\* C11: in every round, an entity whose size is zero when the round starts
\* gets an increment of 0 from the method; so an entity clamped in an
\* earlier round does not exceed its capacity in this round, and an entity
\* whose input size is zero ends with allocation equal to initial.
C11_ZeroSizeGetsNothing ==
    /\ (RoundStarts =>
            \A k \in Keys : size[k] = 0 => Method(method, size, n)[k] = 0)
    /\ (RoundStarts =>
            \A k \in clamped : res[k] + Method(method, size, n)[k] <= units[k])
    /\ (Accepted /\ pc = "returned" =>
            \A k \in Keys : size0[k] = 0 => res[k] = initial)

\* C12: when allocate returns, size has the keys it had at call entry,
\* every entity that was never clamped keeps its size, every entity whose
\* size was changed was clamped, has size zero and allocation[k] equal to
\* units[k], and the units mapping is the one passed by the caller.
C12_SizeFrame ==
    (op = "allocate" /\ pc = "returned") =>
        /\ DOMAIN size = DOMAIN size0
        /\ \A k \in Keys \ clamped : size[k] = size0[k]
        /\ \A k \in Keys :
                size[k] # size0[k] =>
                    k \in clamped /\ size[k] = 0 /\ res[k] = units[k]
        /\ (units0.given => units = units0.map)

\* C12 witness: a returned call in which one entity was clamped and lost
\* its size while another, never clamped, kept a positive size.
C12_Witness ==
    /\ op = "allocate" /\ pc = "returned"
    /\ units0.given
    /\ \E j, k \in Keys :
        /\ size0[j] > 0 /\ size[j] = 0 /\ j \in clamped
        /\ size0[k] > 0 /\ size[k] = size0[k] /\ k \notin clamped /\ res[k] > initial

\* the conditions C13 lists, read off the arguments
Rejectable ==
    \/ n0 < 0
    \/ initial < 0
    \/ initial * K > n0
    \/ (units0.given /\ DOMAIN units0.map # Keys)
    \/ (units0.given /\ \E k \in DOMAIN units0.map : units0.map[k] < 0)

\* the messages of allocate's own checks
OwnErrors ==
    {"n must be positive", "intial must be positive",
     "initial allocation cannot be larger",
     "size and units must have the same keys",
     "units cannot have negative values"}

\* C13: allocate rejects, before entering its loop and with size unchanged,
\* every call with n < 0, initial < 0, initial * |size| > n, a units
\* mapping whose keys differ from those of size, or a negative units value;
\* it accepts every other call: none of its own checks fails, and with
\* initial * |size| = n it returns every entity at initial.
C13_Preconditions ==
    op = "allocate" =>
        /\ (Rejectable =>
                /\ pc = "raised" /\ err \in OwnErrors
                /\ rounds = 0 /\ size = size0)
        /\ (~Rejectable =>
                /\ (pc = "raised" => n > 0 /\ err \notin OwnErrors)
                /\ (n0 = initial * K =>
                        pc = "returned" /\ rounds = 0
                        /\ res = [k \in Keys |-> initial]))

\* C13 witness: a call rejected only for the keys of its units mapping.
C13_Witness ==
    /\ op = "allocate" /\ pc = "raised"
    /\ err = "size and units must have the same keys"
    /\ n0 > initial * K /\ initial > 0
    /\ ~AnyNegative(units0.map) /\ SizesValid
    /\ size = size0

====
